---- MODULE Spec2Model ----
(***************************************************************************)
(* Model of the analytics CLI (top-songs, timeline, payout) that reads the *)
(* enriched event list of output.json and prints one report per run.       *)
(*                                                                         *)
(* Time.  The program turns every ISO timestamp into a Date and compares   *)
(* Dates by their time value.  A timestamp is modelled in its parsed form  *)
(* [year, month (1..12), day, tick] and a Date by its time value, counted  *)
(* in ticks since 1970-01-01 with TicksPerDay ticks in a day (the program  *)
(* has 86400000 of them, one per millisecond).  The calendar is the local  *)
(* one of the Date constructor and of getFullYear/getMonth; timestamps are *)
(* taken to be written in that same zone.  An invalid Date is NaN.         *)
(*                                                                         *)
(* The ingestion script that produces output.json is modelled next to it:  *)
(* songCache is its module-level cache, call the local state of one        *)
(* enrichEvents call, requests the lookups that call sent to the metadata  *)
(* service.                                                                *)
(***************************************************************************)
EXTENDS Integers, Sequences, FiniteSets, TLC

VARIABLES events, cmd, out, songCache, call, requests

vars == <<events, cmd, out, songCache, call, requests>>

analyticsVars == <<events, cmd, out>>

ingestVars == <<songCache, call, requests>>

(* ------------------------------ bounds --------------------------------- *)
MaxEvents == 3
TicksPerDay == 2
MaxN == 3
MaxMonths == 3
MaxCalls == 2

(* ------------------------------ Date ----------------------------------- *)
NaN == [valid |-> FALSE, t |-> 0]

Time(t) == [valid |-> TRUE, t |-> t]

\* ECMAScript DayFromYear: day number of January 1st of year y
DayFromYear(y) ==
    365 * (y - 1970) + ((y - 1969) \div 4) - ((y - 1901) \div 100)
        + ((y - 1601) \div 400)

InLeapYear(y) == (y % 4 = 0) /\ ((y % 100 # 0) \/ (y % 400 = 0))

\* ECMAScript MonthFromTime table: days of the year before month m (0-based;
\* m = 12 gives the length of the year)
DaysBeforeMonth(y, m) ==
    <<0, 31, 59, 90, 120, 151, 181, 212, 243, 273, 304, 334, 365>>[m + 1]
        + (IF m >= 2 /\ InLeapYear(y) THEN 1 ELSE 0)

\* new Date(year, month, day) plus a time of day: month is 0-based and may
\* lie outside 0..11, day may be 0; both carry over (MakeDay/MakeDate).
MakeDate(year, month, day, tick) ==
    LET ym == year + (month \div 12)
        mn == month % 12
    IN  Time((DayFromYear(ym) + DaysBeforeMonth(ym, mn) + (day - 1)) * TicksPerDay
             + tick)

Years == 2023..2026

\* Date.prototype.getFullYear
GetFullYear(d) ==
    CHOOSE y \in Years :
        /\ DayFromYear(y) * TicksPerDay <= d.t
        /\ d.t < DayFromYear(y + 1) * TicksPerDay

\* Date.prototype.getMonth (0-based)
GetMonth(d) ==
    LET y == GetFullYear(d)
        dayWithinYear == (d.t \div TicksPerDay) - DayFromYear(y)
    IN  CHOOSE m \in 0..11 :
            /\ DaysBeforeMonth(y, m) <= dayWithinYear
            /\ dayWithinYear < DaysBeforeMonth(y, m + 1)

\* new Date(isoString) for a well-formed timestamp
NewDate(ts) == MakeDate(ts.year, ts.month - 1, ts.day, ts.tick)

\* relational comparison of two Dates: false as soon as one is NaN
DateGE(a, b) == a.valid /\ b.valid /\ a.t >= b.t

DateLE(a, b) == a.valid /\ b.valid /\ a.t <= b.t

(* ------------------------- Map and Array helpers ----------------------- *)
\* A Map is the sequence of its entries [key, val] in insertion order.
MapHas(m, k) == \E i \in 1..Len(m) : m[i].key = k

MapGet(m, k) == m[CHOOSE i \in 1..Len(m) : m[i].key = k].val

\* Map.prototype.set: an existing key keeps its position
MapSet(m, k, v) ==
    IF MapHas(m, k)
    THEN [i \in 1..Len(m) |-> IF m[i].key = k THEN [key |-> k, val |-> v] ELSE m[i]]
    ELSE Append(m, [key |-> k, val |-> v])

\* Array.prototype.slice(0, n)
Slice0(s, n) ==
    LET final == IF n < 0 THEN (IF Len(s) + n < 0 THEN 0 ELSE Len(s) + n)
                 ELSE (IF n < Len(s) THEN n ELSE Len(s))
    IN  SubSeq(s, 1, final)

\* the comparator with its operands exchanged: (a, b) => count(a) - count(b)
CompareAsc(ca, cb) == ca - cb

\* The comparator (a, b) => count(b) - count(a), applied to two counts
CompareDesc(ca, cb) == cb - ca

\* an unstable placement: the index goes in front of the indices with an
\* equal count
RECURSIVE InsertSortedBeforeEqual(_, _, _)
InsertSortedBeforeEqual(sorted, i, counts) ==
    IF sorted = <<>> THEN <<i>>
    ELSE IF CompareDesc(counts[i], counts[Head(sorted)]) <= 0
         THEN <<i>> \o sorted
         ELSE <<Head(sorted)>> \o InsertSortedBeforeEqual(Tail(sorted), i, counts)

\* Array.prototype.sort is stable: an index is placed after every index that
\* the comparator does not put behind it, so equal counts keep their order.
\* sorted is a sequence of indices into counts.
RECURSIVE InsertSorted(_, _, _)
InsertSorted(sorted, i, counts) ==
    IF sorted = <<>> THEN <<i>>
    ELSE IF CompareDesc(counts[i], counts[Head(sorted)]) < 0
         THEN <<i>> \o sorted
         ELSE <<Head(sorted)>> \o InsertSorted(Tail(sorted), i, counts)

\* the order in which sort((a, b) => count(b) - count(a)) leaves the
\* elements, as the sequence of their original indices
RECURSIVE SortOrder(_, _)
SortOrder(k, counts) ==
    IF k = 0 THEN <<>>
    ELSE InsertSorted(SortOrder(k - 1, counts), k, counts)

SortByCountDesc(s, counts) ==
    LET order == SortOrder(Len(s), counts)
    IN  [i \in 1..Len(s) |-> s[order[i]]]

(* ------------------------------ top-songs ------------------------------ *)
\* the range test with the end bound left out
InRangeEndExclusive(eventDate, startDate, endDate) ==
    DateGE(eventDate, startDate) /\ eventDate.t < endDate.t

\* the range test that takes the two bounds in either order
InRangeEitherOrder(eventDate, startDate, endDate) ==
    \/ DateGE(eventDate, startDate) /\ DateLE(eventDate, endDate)
    \/ DateGE(eventDate, endDate) /\ DateLE(eventDate, startDate)

\* the range test of the filter callback
InRange(eventDate, startDate, endDate) ==
    DateGE(eventDate, startDate) /\ DateLE(eventDate, endDate)

\* songCounts: plays per songId, keyed in order of first appearance
RECURSIVE CountSongs(_, _)
CountSongs(evs, m) ==
    IF evs = <<>> THEN m
    ELSE CountSongs(Tail(evs),
                    MapSet(m, Head(evs).songId,
                           (IF MapHas(m, Head(evs).songId)
                            THEN MapGet(m, Head(evs).songId) ELSE 0) + 1))

TopSongsList(evs, start, end, n) ==
    LET startDate == NewDate(start)
        endDate == NewDate(end)
        Keep(ev) == InRange(NewDate(ev.timestamp), startDate, endDate)
        filteredEvents == SelectSeq(evs, Keep)
        songCounts == CountSongs(filteredEvents, <<>>)
        counts == [i \in 1..Len(songCounts) |-> songCounts[i].val]
        ranked == Slice0(SortByCountDesc(songCounts, counts), n)
    IN  [i \in 1..Len(ranked) |-> ranked[i].key]

(* ------------------------------ timeline ------------------------------- *)
RECURSIVE MaxTime(_)
MaxTime(evs) ==
    IF Len(evs) = 1 THEN NewDate(evs[1].timestamp).t
    ELSE LET rest == MaxTime(Tail(evs))
             first == NewDate(evs[1].timestamp).t
         IN  IF first > rest THEN first ELSE rest

\* new Date(Math.max(...eventDates.map(d => d.getTime()))): the latest event
\* of the whole list; Math.max() of nothing is -Infinity, an invalid Date
LatestDate(evs) == IF evs = <<>> THEN NaN ELSE Time(MaxTime(evs))

\* the month one further back: getMonth() - i - 1
MonthDateOneEarlier(latestDate, i) ==
    IF ~latestDate.valid THEN NaN
    ELSE MakeDate(GetFullYear(latestDate), GetMonth(latestDate) - i - 1, 1, 0)

\* new Date(latestDate.getFullYear(), latestDate.getMonth() - i, 1)
MonthDate(latestDate, i) ==
    IF ~latestDate.valid THEN NaN
    ELSE MakeDate(GetFullYear(latestDate), GetMonth(latestDate) - i, 1, 0)

\* new Date(monthDate.getFullYear(), monthDate.getMonth(), 1)
MonthStart(monthDate) ==
    IF ~monthDate.valid THEN NaN
    ELSE MakeDate(GetFullYear(monthDate), GetMonth(monthDate), 1, 0)

\* the end of the month without its time of day: midnight of the last day
MonthEndAtMidnight(monthDate) ==
    IF ~monthDate.valid THEN NaN
    ELSE MakeDate(GetFullYear(monthDate), GetMonth(monthDate) + 1, 0, 0)

\* new Date(monthDate.getFullYear(), monthDate.getMonth() + 1, 0, 23, 59, 59, 999):
\* the last instant of the last day of the month
MonthEnd(monthDate) ==
    IF ~monthDate.valid THEN NaN
    ELSE MakeDate(GetFullYear(monthDate), GetMonth(monthDate) + 1, 0, TicksPerDay - 1)

\* songCounts of one month: songId -> {count, title}, the title of the
\* latest event seen
RECURSIVE CountSongTitles(_, _)
CountSongTitles(evs, m) ==
    IF evs = <<>> THEN m
    ELSE LET ev == Head(evs)
             current == IF MapHas(m, ev.songId) THEN MapGet(m, ev.songId)
                        ELSE [count |-> 0, title |-> ev.title]
         IN  CountSongTitles(Tail(evs),
                             MapSet(m, ev.songId,
                                    [count |-> current.count + 1, title |-> ev.title]))

\* artistCounts of one month: artist -> plays
RECURSIVE CountArtists(_, _)
CountArtists(evs, m) ==
    IF evs = <<>> THEN m
    ELSE CountArtists(Tail(evs),
                      MapSet(m, Head(evs).artist,
                             (IF MapHas(m, Head(evs).artist)
                              THEN MapGet(m, Head(evs).artist) ELSE 0) + 1))

\* the line printed for a month that has events
MonthLine(monthDate, monthEvents) ==
    LET songCounts == CountSongTitles(monthEvents, <<>>)
        artistCounts == CountArtists(monthEvents, <<>>)
        topSong == SortByCountDesc(songCounts,
                       [k \in 1..Len(songCounts) |-> songCounts[k].val.count])[1]
        topArtist == SortByCountDesc(artistCounts,
                       [k \in 1..Len(artistCounts) |-> artistCounts[k].val])[1]
    IN  [kind |-> "month",
         year |-> GetFullYear(monthDate),
         month |-> GetMonth(monthDate) + 1,
         topSong |-> topSong.val.title,
         topArtist |-> topArtist.key]

\* the loop "for (let i = months - 1; i >= 0; i--)" from index i on; acc
\* holds the lines printed so far and hasAnyData
RECURSIVE TimelineLoop(_, _, _, _, _)
TimelineLoop(evs, userId, latestDate, i, acc) ==
    IF ~(i >= 0) THEN acc
    ELSE LET monthDate == MonthDate(latestDate, i)
             monthStart == MonthStart(monthDate)
             monthEnd == MonthEnd(monthDate)
             Keep(ev) == /\ ev.userId = userId
                         /\ DateGE(NewDate(ev.timestamp), monthStart)
                         /\ DateLE(NewDate(ev.timestamp), monthEnd)
             monthEvents == SelectSeq(evs, Keep)
         IN  IF Len(monthEvents) = 0
             THEN TimelineLoop(evs, userId, latestDate, i - 1, acc)
             ELSE TimelineLoop(evs, userId, latestDate, i - 1,
                      [lines |-> Append(acc.lines, MonthLine(monthDate, monthEvents)),
                       hasAnyData |-> TRUE])

TimelineReport(evs, userId, months) ==
    LET done == TimelineLoop(evs, userId, LatestDate(evs), months - 1,
                             [lines |-> <<>>, hasAnyData |-> FALSE])
    IN  IF ~done.hasAnyData
        THEN [lines |-> Append(done.lines,
                               [kind |-> "nodata", userId |-> userId, months |-> months]),
              hasAnyData |-> FALSE]
        ELSE done

(* ------------------------------- payout -------------------------------- *)
LowerChar(c) ==
    CASE c = "D" -> "d"
      [] c = "R" -> "r"
      [] c = "X" -> "x"
      [] OTHER -> c

\* String.prototype.toLowerCase
ToLowerCase(str) == [k \in 1..Len(str) |-> LowerChar(str[k])]

\* only the argument is folded: event.artist === artist.toLowerCase()
ArtistMatchesArgFolded(eventArtist, artist) == eventArtist = ToLowerCase(artist)

\* event.artist.toLowerCase() === artist.toLowerCase()
ArtistMatches(eventArtist, artist) == ToLowerCase(eventArtist) = ToLowerCase(artist)

\* a window of one month more: getMonth() - months
PayoutStartOneEarlier(latestDate, months) ==
    IF ~latestDate.valid THEN NaN
    ELSE MakeDate(GetFullYear(latestDate), GetMonth(latestDate) - months, 1, 0)

\* new Date(latestDate.getFullYear(), latestDate.getMonth() - months + 1, 1)
PayoutStart(latestDate, months) ==
    IF ~latestDate.valid THEN NaN
    ELSE MakeDate(GetFullYear(latestDate), GetMonth(latestDate) - months + 1, 1, 0)

\* the threshold taken inclusively: event.durationMs >= 10000
LongEnoughInclusive(durationMs) == durationMs >= 10000

\* event.durationMs > 10000
LongEnough(durationMs) == durationMs > 10000

ArtistEvents(evs, artist, months) ==
    LET startDate == PayoutStart(LatestDate(evs), months)
        Keep(ev) == /\ ArtistMatches(ev.artist, artist)
                    /\ DateGE(NewDate(ev.timestamp), startDate)
                    /\ LongEnough(ev.durationMs)
    IN  SelectSeq(evs, Keep)

\* artistEvents.reduce((sum, event) => sum + event.durationMs, 0)
RECURSIVE SumDuration(_)
SumDuration(evs) ==
    IF evs = <<>> THEN 0 ELSE Head(evs).durationMs + SumDuration(Tail(evs))

\* (totalMs / 60000 * 0.001).toFixed(2), as a number of cents: the nearest
\* multiple of 0.01
ToFixed2(totalMs) == (totalMs + 300000) \div 600000

PayoutReport(evs, artist, months) ==
    LET artistEvents == ArtistEvents(evs, artist, months)
        totalMs == SumDuration(artistEvents)
    IN  [lines |-> <<[kind |-> "payout", cents |-> ToFixed2(totalMs)]>>,
         artistEvents |-> artistEvents,
         totalMs |-> totalMs]

(* ----------------------------- ingestion ------------------------------- *)
NoResponse == [kind |-> "none"]

\* no enrichEvents call has been made
IdleCall ==
    [pc |-> "idle", events |-> <<>>, uniqueSongIds |-> <<>>, i |-> 0,
     response |-> NoResponse, enrichedEvents |-> <<>>, calls |-> 0]

\* the ingestion script is not part of an analytics run
IngestIdle == songCache = <<>> /\ call = IdleCall /\ requests = <<>>

\* events.map(e => e.songId), duplicates kept
RECURSIVE AllSongIds(_)
AllSongIds(evs) ==
    IF evs = <<>> THEN <<>> ELSE <<Head(evs).songId>> \o AllSongIds(Tail(evs))

RECURSIVE Dedup(_, _)
Dedup(ids, seen) ==
    IF ids = <<>> THEN seen
    ELSE Dedup(Tail(ids),
               IF \E k \in 1..Len(seen) : seen[k] = Head(ids)
               THEN seen ELSE Append(seen, Head(ids)))

\* the songIds without the Set: one per event
SongIdsWithRepeats(evs) == AllSongIds(evs)

\* [...new Set(events.map(e => e.songId))]: each songId once, in order of
\* first appearance
UniqueSongIds(evs) == Dedup(AllSongIds(evs), <<>>)

\* songCache.has(songId)
CacheHit(cache, songId) == MapHas(cache, songId)

\* what fetchSongMetadata does to the cache when the service has answered:
\* only an OK response whose body parsed is stored
CacheAfter(cache, songId, response) ==
    IF response.kind = "ok" THEN MapSet(cache, songId, response.metadata)
    ELSE cache

\* the second loop of enrichEvents: every event whose songId has metadata in
\* the cache is pushed with title, artist and releaseDate added
RECURSIVE EnrichLoop(_, _, _)
EnrichLoop(evs, cache, enrichedEvents) ==
    IF evs = <<>> THEN enrichedEvents
    ELSE LET event == Head(evs)
         IN  IF MapHas(cache, event.songId)
             THEN LET metadata == MapGet(cache, event.songId)
                  IN  EnrichLoop(Tail(evs), cache,
                          Append(enrichedEvents,
                                 [userId |-> event.userId,
                                  songId |-> event.songId,
                                  timestamp |-> event.timestamp,
                                  durationMs |-> event.durationMs,
                                  title |-> metadata.title,
                                  artist |-> metadata.artist,
                                  releaseDate |-> metadata.releaseDate]))
             ELSE EnrichLoop(Tail(evs), cache, enrichedEvents)

(* ------------------------------ inputs --------------------------------- *)
Stamp(y, m, d, k) == [year |-> y, month |-> m, day |-> d, tick |-> k]

\* song metadata copied into every event at enrichment time; an artist name
\* is the sequence of its characters
SongMeta ==
    [A |-> [title |-> "Alpha", artist |-> <<"D", "r">>],
     B |-> [title |-> "Beta", artist |-> <<"D", "r">>],
     C |-> [title |-> "Alpha", artist |-> <<"D", "R">>],
     D |-> [title |-> "Delta", artist |-> <<"D", "x">>]]

SongIds == {"A", "B", "C"}

MkEvent(u, s, ts, d) ==
    [userId |-> u, songId |-> s, timestamp |-> ts, durationMs |-> d,
     title |-> SongMeta[s].title, artist |-> SongMeta[s].artist]

RECURSIVE SeqsUpTo(_, _)
SeqsUpTo(S, k) ==
    IF k = 0 THEN {<<>>}
    ELSE LET shorter == SeqsUpTo(S, k - 1)
         IN  shorter \cup {Append(s, x) : s \in {q \in shorter : Len(q) = k - 1}, x \in S}

TopStamps ==
    {Stamp(2024, 12, 31, TicksPerDay - 1), Stamp(2025, 3, 5, 0),
     Stamp(2025, 3, 5, TicksPerDay - 1)}

TopEvents == {MkEvent("u1", s, ts, 200000) : s \in SongIds, ts \in TopStamps}

NoCmd == [name |-> "none"]

InitTop ==
    /\ events \in SeqsUpTo(TopEvents, MaxEvents)
    /\ cmd = NoCmd
    /\ out = [lines |-> <<>>]
    /\ IngestIdle

\* one run of "top-songs <start> <end> <n>": the process reads its command
\* line once, prints its report and ends
TopSongs(start, end, n) ==
    /\ cmd = NoCmd
    /\ cmd' = [name |-> "top-songs", start |-> start, end |-> end, n |-> n]
    /\ out' = [lines |-> TopSongsList(events, start, end, n)]
    /\ UNCHANGED events
    /\ UNCHANGED ingestVars

NextTop == \E start \in TopStamps, end \in TopStamps, n \in (-2)..MaxN :
               TopSongs(start, end, n)

SpecTop == InitTop /\ [][NextTop]_vars

UserIds == {"u1", "u2"}

TimelineStamps ==
    {Stamp(2024, 12, 31, TicksPerDay - 1), Stamp(2025, 1, 31, TicksPerDay - 1),
     Stamp(2025, 2, 1, 0)}

\* the first user plays every song in every month, the second user one song
\* in the latest month
TimelineEvents ==
    {MkEvent("u1", s, ts, 200000) : s \in SongIds, ts \in TimelineStamps}
        \cup {MkEvent("u2", "A", Stamp(2025, 2, 1, 0), 200000)}

InitTimeline ==
    /\ events \in SeqsUpTo(TimelineEvents, MaxEvents)
    /\ cmd = NoCmd
    /\ out = [lines |-> <<>>]
    /\ IngestIdle

\* one run of "timeline <userId> <months>"
Timeline(userId, months) ==
    /\ cmd = NoCmd
    /\ cmd' = [name |-> "timeline", userId |-> userId, months |-> months]
    /\ out' = TimelineReport(events, userId, months)
    /\ UNCHANGED events
    /\ UNCHANGED ingestVars

NextTimeline == \E userId \in UserIds, months \in (-1)..MaxMonths :
                    Timeline(userId, months)

SpecTimeline == InitTimeline /\ [][NextTimeline]_vars

PayoutStamps ==
    {Stamp(2024, 12, 31, TicksPerDay - 1), Stamp(2025, 1, 1, 0), Stamp(2025, 2, 5, 0)}

Durations == {10000, 10001, 600000}

\* plays of every length of the first artist's song, one long play of the
\* other artist's song
PayoutEvents ==
    {MkEvent("u1", "C", ts, d) : ts \in PayoutStamps, d \in Durations}
        \cup {MkEvent("u1", "D", Stamp(2025, 2, 5, 0), 600000)}

ArtistArgs == {<<"d", "r">>, <<"D", "r">>, <<"d">>}

InitPayout ==
    /\ events \in SeqsUpTo(PayoutEvents, MaxEvents)
    /\ cmd = NoCmd
    /\ out = [lines |-> <<>>]
    /\ IngestIdle

\* one run of "payout <artist> <months>"
Payout(artist, months) ==
    /\ cmd = NoCmd
    /\ cmd' = [name |-> "payout", artist |-> artist, months |-> months]
    /\ out' = PayoutReport(events, artist, months)
    /\ UNCHANGED events
    /\ UNCHANGED ingestVars

NextPayout == \E artist \in ArtistArgs, months \in 0..MaxMonths :
                  Payout(artist, months)

SpecPayout == InitPayout /\ [][NextPayout]_vars

(* ------------------------- the ingestion script ------------------------ *)
\* the parsed rows of the CSV file: two listeners of song A, one of song B
RawEvents ==
    {[userId |-> u, songId |-> "A", timestamp |-> Stamp(2025, 3, 5, 0),
      durationMs |-> 200000] : u \in UserIds}
        \cup {[userId |-> "u1", songId |-> "B", timestamp |-> Stamp(2025, 3, 5, 0),
               durationMs |-> 200000]}

\* what GET /songs/:songId may answer with status 200: the song as
\* songs.json holds it at that moment
ServiceSongs(songId) ==
    {[songId |-> songId, title |-> SongMeta[songId].title,
      artist |-> SongMeta[songId].artist, releaseDate |-> r] :
        r \in {"2020-01-01", "2021-01-01"}}

\* the ways one lookup can end: an OK response with a song, a non-OK status,
\* fetch rejecting, response.json() rejecting
Responses(songId) ==
    {[kind |-> "ok", metadata |-> m] : m \in ServiceSongs(songId)}
        \cup {[kind |-> "not-ok"], [kind |-> "fetch-throws"], [kind |-> "json-throws"]}

InitIngest ==
    /\ events = <<>>
    /\ cmd = NoCmd
    /\ out = [lines |-> <<>>]
    /\ IngestIdle

\* enrichEvents(evs) is called: the unique songIds are collected
EnrichStart(evs) ==
    /\ call.pc \in {"idle", "done"}
    /\ call.calls < MaxCalls
    /\ call' = [pc |-> "fetching", events |-> evs,
                uniqueSongIds |-> UniqueSongIds(evs), i |-> 1,
                response |-> NoResponse, enrichedEvents |-> <<>>,
                calls |-> call.calls + 1]
    /\ requests' = <<>>
    /\ UNCHANGED songCache
    /\ UNCHANGED analyticsVars

\* fetchSongMetadata(uniqueSongIds[i]) finds the song in the cache
FetchCached ==
    /\ call.pc = "fetching"
    /\ call.i <= Len(call.uniqueSongIds)
    /\ CacheHit(songCache, call.uniqueSongIds[call.i])
    /\ call' = [call EXCEPT !.i = @ + 1]
    /\ UNCHANGED <<songCache, requests>>
    /\ UNCHANGED analyticsVars

\* fetchSongMetadata(uniqueSongIds[i]) asks the metadata service
FetchRequest ==
    /\ call.pc = "fetching"
    /\ call.i <= Len(call.uniqueSongIds)
    /\ ~CacheHit(songCache, call.uniqueSongIds[call.i])
    /\ requests' = Append(requests, call.uniqueSongIds[call.i])
    /\ call' = [call EXCEPT !.pc = "awaiting"]
    /\ UNCHANGED songCache
    /\ UNCHANGED analyticsVars

\* the lookup ends with response; the loop goes on to the next songId
FetchResponse(response) ==
    /\ call.pc = "awaiting"
    /\ response \in Responses(call.uniqueSongIds[call.i])
    /\ songCache' = CacheAfter(songCache, call.uniqueSongIds[call.i], response)
    /\ call' = [call EXCEPT !.pc = "fetching", !.i = @ + 1, !.response = response]
    /\ UNCHANGED requests
    /\ UNCHANGED analyticsVars

\* all lookups are over: the events are joined with the cache and returned
EnrichReturn ==
    /\ call.pc = "fetching"
    /\ call.i > Len(call.uniqueSongIds)
    /\ call' = [call EXCEPT !.pc = "done",
                            !.enrichedEvents = EnrichLoop(call.events, songCache, <<>>)]
    /\ UNCHANGED <<songCache, requests>>
    /\ UNCHANGED analyticsVars

AllResponses == UNION {Responses(s) : s \in {"A", "B"}}

NextIngest ==
    \/ \E evs \in SeqsUpTo(RawEvents, MaxEvents) : EnrichStart(evs)
    \/ FetchCached
    \/ FetchRequest
    \/ \E response \in AllResponses : FetchResponse(response)
    \/ EnrichReturn

SpecIngest == InitIngest /\ [][NextIngest]_vars

(* ------------------- reference counts for top-songs ------------------- *)
\* calendar order of two timestamps, field by field
StampLE(a, b) ==
    \/ a.year < b.year
    \/ a.year = b.year /\ a.month < b.month
    \/ a.year = b.year /\ a.month = b.month /\ a.day < b.day
    \/ a.year = b.year /\ a.month = b.month /\ a.day = b.day /\ a.tick <= b.tick

IsTop == cmd.name = "top-songs"

\* positions of the events of song s inside [cmd.start, cmd.end]
InRangePlays(s) ==
    {i \in 1..Len(events) :
        /\ events[i].songId = s
        /\ StampLE(cmd.start, events[i].timestamp)
        /\ StampLE(events[i].timestamp, cmd.end)}

PlayCount(s) == Cardinality(InRangePlays(s))

InRangeSongs == {s \in SongIds : InRangePlays(s) # {}}

FirstSeen(s) == CHOOSE i \in InRangePlays(s) : \A j \in InRangePlays(s) : i <= j

Returned == {out.lines[i] : i \in 1..Len(out.lines)}

Min(a, b) == IF a < b THEN a ELSE b

\* C1: top-songs run with n <= 0 prints no song, whatever the events and
\* the date range.
C1_NonPositiveNIsEmpty ==
    (IsTop /\ cmd.n <= 0) => out.lines = <<>>

\* C2: for n >= 0 the result of top-songs has no duplicate songId, has
\* length min(n, number of distinct songs played inside the inclusive range
\* [start, end]), is ordered by non-increasing in-range play count, and no
\* song left out has more in-range plays than a song returned; events
\* exactly at start or at end count.
C2_TopSongsRanked ==
    (IsTop /\ cmd.n >= 0) =>
        /\ \A i, j \in 1..Len(out.lines) : i # j => out.lines[i] # out.lines[j]
        /\ Returned \subseteq InRangeSongs
        /\ Len(out.lines) = Min(cmd.n, Cardinality(InRangeSongs))
        /\ \A i, j \in 1..Len(out.lines) :
               i < j => PlayCount(out.lines[i]) >= PlayCount(out.lines[j])
        /\ \A s \in InRangeSongs \ Returned : \A r \in Returned :
               PlayCount(s) <= PlayCount(r)

\* a song with two plays, one exactly at start and one exactly at end, is
\* returned and a song with fewer plays is cut off
C2_Witness ==
    /\ IsTop /\ cmd.n = 1 /\ Len(out.lines) = 1
    /\ cmd.start # cmd.end
    /\ \E i, j \in InRangePlays(out.lines[1]) :
           events[i].timestamp = cmd.start /\ events[j].timestamp = cmd.end
    /\ \E s \in InRangeSongs \ Returned : PlayCount(s) < PlayCount(out.lines[1])

\* C3: top-songs run with start strictly after end prints no song (the run
\* ends normally with an empty report).
C3_ReversedRangeIsEmpty ==
    (IsTop /\ ~StampLE(cmd.start, cmd.end)) => out.lines = <<>>

\* a reversed range with events lying between its two bounds and n > 0
C3_Witness ==
    /\ IsTop /\ ~StampLE(cmd.start, cmd.end) /\ cmd.n > 0
    /\ \E i \in 1..Len(events) :
           /\ StampLE(cmd.end, events[i].timestamp)
           /\ StampLE(events[i].timestamp, cmd.start)
    /\ out.lines = <<>>

\* C10: the result of top-songs is ranked by play count and, among songs
\* with equal in-range play counts, by the position of their first in-range
\* event; the same rule decides which tied song is cut off at position n.
C10_TieBreakFirstSeen ==
    IsTop =>
        /\ \A i, j \in 1..Len(out.lines) :
               (i < j /\ PlayCount(out.lines[i]) = PlayCount(out.lines[j]))
                   => FirstSeen(out.lines[i]) < FirstSeen(out.lines[j])
        /\ \A s \in InRangeSongs \ Returned : \A r \in Returned :
               PlayCount(s) = PlayCount(r) => FirstSeen(r) < FirstSeen(s)

\* two tied songs are returned and a third song tied with them is cut off
C10_Witness ==
    /\ IsTop /\ Len(out.lines) >= 2
    /\ \E i \in 1..(Len(out.lines) - 1) :
           /\ PlayCount(out.lines[i]) = PlayCount(out.lines[i + 1])
           /\ \E s \in InRangeSongs \ Returned :
                  PlayCount(s) = PlayCount(out.lines[i + 1])

(* --------------- reference calendar for timeline and payout ------------ *)
\* calendar months counted from year 0
MonthIndex(ts) == ts.year * 12 + (ts.month - 1)

\* the month of the latest timestamp of the whole event list
RefMonthIndex ==
    LET latest == CHOOSE i \in 1..Len(events) :
                      \A j \in 1..Len(events) :
                          StampLE(events[j].timestamp, events[i].timestamp)
    IN  MonthIndex(events[latest].timestamp)

IsTimeline == cmd.name = "timeline"

IsMonthLine(l) == l.kind = "month"

MonthLines == SelectSeq(out.lines, IsMonthLine)

LineIndex(l) == l.year * 12 + (l.month - 1)

\* the months consecutive calendar months ending at the reference month
Window == (RefMonthIndex - cmd.months + 1)..RefMonthIndex

\* positions of the queried user's events in calendar month L
UserPlays(L) ==
    {i \in 1..Len(events) :
        events[i].userId = cmd.userId /\ MonthIndex(events[i].timestamp) = L}

\* C4: timeline prints at most months month lines (none when months <= 0),
\* every printed (year, month) is one of the months consecutive calendar
\* months ending at the month of the latest timestamp of the whole event
\* list, and the lines are in strictly increasing chronological order (so
\* no month is printed twice).
C4_TimelineWindow ==
    IsTimeline =>
        /\ cmd.months <= 0 => MonthLines = <<>>
        /\ cmd.months > 0 => Len(MonthLines) <= cmd.months
        /\ events = <<>> => MonthLines = <<>>
        /\ \A k \in 1..Len(MonthLines) :
               /\ MonthLines[k].month \in 1..12
               /\ LineIndex(MonthLines[k]) \in Window
        /\ \A k, l \in 1..Len(MonthLines) :
               k < l => LineIndex(MonthLines[k]) < LineIndex(MonthLines[l])

\* the reference month is set by another user's event, the window crosses
\* the turn of the year, and the queried user gets two lines in it, the
\* older one first
C4_Witness ==
    /\ IsTimeline /\ Len(MonthLines) = 2
    /\ MonthLines[1].year < MonthLines[2].year
    /\ UserPlays(RefMonthIndex) = {}
    /\ LineIndex(MonthLines[1]) = RefMonthIndex - cmd.months + 1

\* C5: timeline prints a line for a month of the window exactly when the
\* queried user has an event in that month; hasAnyData is true exactly when
\* a line was printed, and the "No data found" line is printed exactly when
\* it is false (no events at all, no events of that user, or only events
\* before the window).
C5_LinesIffUserEvents ==
    IsTimeline =>
        /\ {LineIndex(MonthLines[k]) : k \in 1..Len(MonthLines)}
               = (IF events = <<>> THEN {}
                  ELSE {L \in Window : UserPlays(L) # {}})
        /\ out.hasAnyData <=> (MonthLines # <<>>)
        /\ ~out.hasAnyData =>
               out.lines = <<[kind |-> "nodata", userId |-> cmd.userId,
                              months |-> cmd.months]>>
        /\ out.hasAnyData => out.lines = MonthLines

\* a user with events in only the first and the last of three months gets
\* exactly two lines
C5_Witness ==
    /\ IsTimeline /\ cmd.months = 3 /\ out.hasAnyData
    /\ UserPlays(RefMonthIndex) # {}
    /\ UserPlays(RefMonthIndex - 1) = {}
    /\ UserPlays(RefMonthIndex - 2) # {}
    /\ Len(out.lines) = 2

\* plays of song s / of artist a by the queried user in calendar month L
SongPlays(L, s) == {i \in UserPlays(L) : events[i].songId = s}

ArtistPlays(L, a) == {i \in UserPlays(L) : events[i].artist = a}

FirstOf(S) == CHOOSE i \in S : \A j \in S : i <= j

\* C6: in every month line the top song is the title of a song whose play
\* count by the user in that month is maximal, the top artist is an artist
\* whose play count is maximal, and among several with the maximal count
\* the one whose first event of the month comes first in the event list is
\* reported.
C6_TopSongAndArtist ==
    IsTimeline =>
        \A k \in 1..Len(MonthLines) :
            LET L == LineIndex(MonthLines[k])
            IN  /\ \E i \in UserPlays(L) :
                       LET s == events[i].songId
                       IN  /\ MonthLines[k].topSong = events[i].title
                           /\ \A j \in UserPlays(L) :
                                  LET s2 == events[j].songId
                                      c == Cardinality(SongPlays(L, s))
                                      c2 == Cardinality(SongPlays(L, s2))
                                  IN  \/ c2 < c
                                      \/ c2 = c /\ FirstOf(SongPlays(L, s))
                                                      <= FirstOf(SongPlays(L, s2))
                /\ \E i \in UserPlays(L) :
                       LET a == events[i].artist
                       IN  /\ MonthLines[k].topArtist = a
                           /\ \A j \in UserPlays(L) :
                                  LET a2 == events[j].artist
                                      c == Cardinality(ArtistPlays(L, a))
                                      c2 == Cardinality(ArtistPlays(L, a2))
                                  IN  \/ c2 < c
                                      \/ c2 = c /\ FirstOf(ArtistPlays(L, a))
                                                      <= FirstOf(ArtistPlays(L, a2))

\* a month in which three songs are tied, so that the first one seen is the
\* top song, while the top artist is the artist of the two later songs
C6_Witness ==
    /\ IsTimeline /\ Len(MonthLines) = 1
    /\ LET L == LineIndex(MonthLines[1])
       IN  /\ Cardinality(UserPlays(L)) = 3
           /\ \A i \in UserPlays(L) : Cardinality(SongPlays(L, events[i].songId)) = 1
           /\ MonthLines[1].topSong = events[FirstOf(UserPlays(L))].title
           /\ MonthLines[1].topArtist # events[FirstOf(UserPlays(L))].artist

(* ------------------------ reference for payout ------------------------- *)
IsPayout == cmd.name = "payout"

CaseClasses == {{"D", "d"}, {"R", "r"}, {"X", "x"}}

SameLetter(c1, c2) == c1 = c2 \/ \E cl \in CaseClasses : {c1, c2} \subseteq cl

\* two names that differ at most in letter case
SameIgnoringCase(a, b) ==
    Len(a) = Len(b) /\ \A k \in 1..Len(a) : SameLetter(a[k], b[k])

\* at or after the first instant of the month that is months - 1 months
\* before the reference month
InWindow(ts) == MonthIndex(ts) >= RefMonthIndex - (cmd.months - 1)

Counted == {out.artistEvents[k] : k \in 1..Len(out.artistEvents)}

RECURSIVE SumOver(_)
SumOver(S) ==
    IF S = {} THEN 0
    ELSE LET i == CHOOSE x \in S : TRUE
         IN  events[i].durationMs + SumOver(S \ {i})

\* C7: payout sums the full durationMs of exactly those events of the
\* artist in the window that lasted 10001 ms or more; an event of 10000 ms
\* or less never contributes.
C7_StrictThreshold ==
    IsPayout =>
        /\ \A ev \in Counted : ev.durationMs >= 10001
        /\ out.totalMs =
               SumOver({i \in 1..Len(events) :
                           /\ SameIgnoringCase(events[i].artist, cmd.artist)
                           /\ InWindow(events[i].timestamp)
                           /\ events[i].durationMs >= 10001})

\* two events of the artist in the window, one of 10000 ms and one of
\* 10001 ms: only the second is summed
C7_Witness ==
    /\ IsPayout /\ out.totalMs = 10001
    /\ \E i, j \in 1..Len(events) :
           /\ events[i].durationMs = 10000 /\ events[j].durationMs = 10001
           /\ events[i].timestamp = events[j].timestamp
           /\ events[i].artist = events[j].artist
           /\ events[j] \in Counted

\* C8: payout matches the artist exactly up to letter case: every artist
\* argument that differs from the given one only in case gives the same
\* report, an event whose stored artist differs only in case is counted,
\* and an event whose artist differs by more than case is never counted.
C8_CaseInsensitiveExact ==
    IsPayout =>
        /\ \A a \in ArtistArgs :
               SameIgnoringCase(a, cmd.artist)
                   => PayoutReport(events, a, cmd.months) = out
        /\ \A ev \in Counted : SameIgnoringCase(ev.artist, cmd.artist)
        /\ \A i \in 1..Len(events) :
               (/\ SameIgnoringCase(events[i].artist, cmd.artist)
                /\ InWindow(events[i].timestamp)
                /\ events[i].durationMs > 10000) => events[i] \in Counted

\* "dr" is asked for: an event stored as "DR" is counted and an event of
\* "Dx" in the window is not
C8_Witness ==
    /\ IsPayout /\ cmd.artist = <<"d", "r">> /\ out.totalMs > 0
    /\ \E ev \in Counted : ev.artist = <<"D", "R">>
    /\ \E i \in 1..Len(events) :
           /\ events[i].artist = <<"D", "x">>
           /\ InWindow(events[i].timestamp)
           /\ events[i].durationMs > 10000
           /\ events[i] \notin Counted

\* C9: a long enough event of the artist is counted exactly when its
\* timestamp is at or after the first instant of the month that lies
\* months - 1 months before the month of the latest timestamp of the whole
\* event list (there is no upper end), and when no event is counted the
\* payout printed is 0.00.
C9_PayoutWindow ==
    IsPayout =>
        /\ \A i \in 1..Len(events) :
               (/\ SameIgnoringCase(events[i].artist, cmd.artist)
                /\ events[i].durationMs > 10000)
                   => (events[i] \in Counted <=> InWindow(events[i].timestamp))
        /\ Counted = {} => out.lines = <<[kind |-> "payout", cents |-> 0]>>

\* the window starts with January 1st: the event at its first instant is
\* counted, the event one instant earlier (in the year before) is not, and
\* the event that sets the reference month is counted
C9_Witness ==
    /\ IsPayout /\ cmd.months = 2
    /\ \E i, j, k \in 1..Len(events) :
           /\ events[i].timestamp = Stamp(2025, 1, 1, 0)
           /\ events[j].timestamp = Stamp(2024, 12, 31, TicksPerDay - 1)
           /\ events[k].timestamp = Stamp(2025, 2, 5, 0)
           /\ events[i] \in Counted /\ events[k] \in Counted
           /\ SameIgnoringCase(events[j].artist, cmd.artist)
           /\ events[j].durationMs > 10000
           /\ events[j] \notin Counted

(* ----------------------- reference for ingestion ----------------------- *)
CachedIds == {songCache[k].key : k \in 1..Len(songCache)}

\* positions of the input events whose songId has metadata in the cache
KeptPositions == {p \in 1..Len(call.events) : call.events[p].songId \in CachedIds}

\* the k-th of them, counted from the front of the input
KeptPosition(k) ==
    CHOOSE p \in KeptPositions : Cardinality({q \in KeptPositions : q < p}) = k - 1

\* the fields an enriched event has taken over from its input event
InputPart(e) ==
    [userId |-> e.userId, songId |-> e.songId, timestamp |-> e.timestamp,
     durationMs |-> e.durationMs]

\* the returned list is the input list, in its order, without the events
\* whose songId has no metadata in the cache
ReturnsCachedEventsInOrder ==
    call.pc = "done" =>
        /\ Len(call.enrichedEvents) = Cardinality(KeptPositions)
        /\ \A k \in 1..Len(call.enrichedEvents) :
               InputPart(call.enrichedEvents[k]) = call.events[KeptPosition(k)]

\* no songId is asked of the service twice during one call
AsksOncePerSongId ==
    \A k, l \in 1..Len(requests) : k # l => requests[k] # requests[l]

\* a lookup that ended without an OK, parsed response leaves the cache as it was
FailedLookupStoresNothing ==
    (call.pc = "awaiting" /\ call'.pc = "fetching" /\ call'.response.kind # "ok")
        => songCache' = songCache

\* every entry of the cache is still there, with the same metadata
CacheEntriesKept ==
    \A k \in 1..Len(songCache) :
        \E l \in 1..Len(songCache') : songCache'[l] = songCache[k]

\* C11: whatever the outcome of each metadata lookup, enrichEvents returns
\* the input events in their original order without exactly those whose
\* songId has no metadata in the cache; during one call the service is asked
\* at most once per distinct songId; a failed lookup (non-OK status or a
\* thrown error) stores nothing in the cache; a cached entry is never
\* overwritten or removed.
C11_EnrichEvents ==
    /\ [](ReturnsCachedEventsInOrder /\ AsksOncePerSongId)
    /\ [][FailedLookupStoresNothing /\ CacheEntriesKept]_vars

\* a second call returns two of its three events, both plays of song A in
\* their input order: A was served from the cache without a request, the
\* lookup of B failed and the play of B between them is left out
C11_Witness ==
    /\ call.pc = "done" /\ call.calls = 2
    /\ Len(call.events) = 3 /\ Len(call.enrichedEvents) = 2
    /\ call.events[2].songId = "B"
    /\ InputPart(call.enrichedEvents[1]) = call.events[1]
    /\ InputPart(call.enrichedEvents[2]) = call.events[3]
    /\ call.events[1] # call.events[3]
    /\ requests = <<"B">>
    /\ "B" \notin CachedIds
    /\ call.response.kind \in {"not-ok", "fetch-throws", "json-throws"}

====
